---- MODULE Spec2Model ----
(***************************************************************************)
(* Model of the upload page of frontend-data-transform-engine:             *)
(*   - FileDropZone (the file selection widget),                           *)
(*   - SubmitButton (the submit control),                                  *)
(*   - Home (the page controller),                                         *)
(*   - uploadFile / apiGet / apiPost / handleResponse (the HTTP client),   *)
(*   - GET of app/api/health (the health route).                           *)
(* One step of the model is one browser task: a DOM event with the React   *)
(* handlers it runs and the re-render that follows, or the settlement of   *)
(* one promise with its continuation.                                      *)
(*                                                                         *)
(* Strings are sequences of chunks (a chunk is a TLA+ string); the empty   *)
(* string is <<>>.  File names are sequences of one-character chunks.  A   *)
(* File is identified with its name.  A nullable value is a sequence of    *)
(* length at most one: Null is <<>>, a present value v is <<v>>.           *)
(***************************************************************************)
EXTENDS Integers, Sequences, FiniteSets, TLC

VARIABLES
    uploadBudget,   \* how many uploads a run may start (bounds the exploration)
    parent,         \* who renders the widget: "Home" or "test" (bare callbacks)
    accept,         \* FileDropZone prop accept
    state,          \* FileDropZone useState state
    errorMessage,   \* FileDropZone useState errorMessage
    fileName,       \* FileDropZone useState fileName
    inputValue,     \* value of the hidden <input type="file">
    status,         \* Home useState status
    selectedFile,   \* Home useState selectedFile
    uploadStatus,   \* Home useState uploadStatus
    uploadMessage,  \* Home useState uploadMessage
    result,         \* Home useState result
    probe,          \* the apiGet("/") promise of the mount effect
    pending,        \* uploadFile promises not yet settled
    uploadCalls,    \* number of uploadFile calls made so far
    apiGetCalls,    \* number of apiGet calls made so far
    mounted,        \* the rendered tree is mounted
    homeListeners,  \* Home's keydown listeners registered on the document
    reported,       \* history: the last value passed to onFileSelected
    env,            \* process.env.NEXT_PUBLIC_API_URL, Null when not set
    loadedEnv,      \* history: env when the modules were loaded
    apiUrl,         \* API_URL of lib/api, read from the environment at module load
    routeUrl,       \* API_URL of the health route, read at module load
    call,           \* the HTTP client or route operation awaiting its fetch
    fetches,        \* the requests the current operation has passed to fetch
    reply,          \* how the last operation settled
    lastOp,         \* history: the event handled by the last step
    lastArg,        \* history: the file list of that event (drop, input change)
    calls           \* history: callbacks invoked / promise settled in the last step

widgetVars == <<state, errorMessage, fileName>>
homeVars == <<status, selectedFile, uploadStatus, uploadMessage, result, probe, pending,
              uploadCalls, apiGetCalls>>
vars == <<uploadBudget, parent, accept, state, errorMessage, fileName, inputValue, status, selectedFile,
          uploadStatus, uploadMessage, result, probe, pending, uploadCalls, apiGetCalls,
          mounted, homeListeners, reported, env, loadedEnv, apiUrl, routeUrl, call,
          fetches, reply,
          lastOp, lastArg, calls>>
loadVars == <<env, loadedEnv, apiUrl, routeUrl>>
httpVars == <<loadVars, call, fetches, reply>>

(***************************************************************************)
(* Bounds of the model.                                                    *)
(***************************************************************************)
MaxUploads == 2
MaxLiveUploads == 1
MaxFiles == 2
MaxStemLen == 1

Null == <<>>
Some(v) == <<v>>

(***************************************************************************)
(* Strings.                                                                *)
(***************************************************************************)
Upper == <<"J", "S", "O", "N", "C", "V">>
Lower == <<"j", "s", "o", "n", "c", "v">>

ToLowerChar(c) ==
    IF \E i \in 1..Len(Upper) : Upper[i] = c
    THEN Lower[CHOOSE i \in 1..Len(Upper) : Upper[i] = c]
    ELSE c

toLowerCase(s) == [i \in 1..Len(s) |-> ToLowerChar(s[i])]

\* String.prototype.lastIndexOf: 0-based index of the last occurrence, or -1
lastIndexOf(s, ch) ==
    IF \E i \in 1..Len(s) : s[i] = ch
    THEN (CHOOSE i \in 1..Len(s) : s[i] = ch /\ \A j \in (i+1)..Len(s) : s[j] # ch) - 1
    ELSE -1

\* String.prototype.slice(start): a negative start counts from the end
slice(s, start) ==
    LET from == IF start < 0
                THEN (IF Len(s) + start < 0 THEN 0 ELSE Len(s) + start)
                ELSE (IF start > Len(s) THEN Len(s) ELSE start)
    IN SubSeq(s, from + 1, Len(s))

\* true iff s ends with suffix when letter case is ignored
EndsWithIgnoreCase(s, suffix) ==
    /\ Len(suffix) <= Len(s)
    /\ toLowerCase(SubSeq(s, Len(s) - Len(suffix) + 1, Len(s))) = toLowerCase(suffix)

(***************************************************************************)
(* Inputs: file names, file lists, accept props, keys.                     *)
(***************************************************************************)
DefaultAccept == <<".", "j", "s", "o", "n">>

Accepts == { DefaultAccept,
             <<".", "c", "s", "v">>,
             <<".", "J", "S", "O", "N">>,
             <<"j", "s", "o", "n">> }

StemChars == {"a"}

RECURSIVE SeqsUpTo(_, _)
SeqsUpTo(S, n) ==
    IF n = 0 THEN {<<>>}
    ELSE LET shorter == SeqsUpTo(S, n - 1)
         IN shorter \cup { Append(s, c) : s \in shorter, c \in S }

Tails == { <<>>,
           <<".", "j", "s", "o", "n">>,
           <<".", "J", "s", "O", "N">>,
           <<"j", "s", "o", "n">>,
           <<".", "c", "s", "v">>,
           <<".", "j", "s", "o", "n", ".", "c", "s", "v">> }

\* names offered to the widget on its own
Names == { s \o t : s \in SeqsUpTo(StemChars, MaxStemLen), t \in Tails } \ {<<>>}

\* names offered to the page: two names the default accept admits, one it rejects
PageNames == { <<"a", ".", "j", "s", "o", "n">>,
               <<"a", ".", "J", "S", "O", "N">>,
               <<"a", ".", "c", "s", "v">> }

\* the file that follows the first one in a drop or a selection of several
OtherNames == { <<"b", ".", "j", "s", "o", "n">> }

\* file lists of 0..MaxFiles files whose first file is any of names
FileLists(names) ==
    {<<>>} \cup { <<f>> \o rest : f \in names, rest \in SeqsUpTo(OtherNames, MaxFiles - 1) }

\* file lists offered to the page: none, one file, a rejected file followed
\* by an admitted one
PageLists ==
    {<<>>} \cup { <<f>> : f \in PageNames }
           \cup { <<f>> \o <<g>> : f \in {<<"a", ".", "c", "s", "v">>}, g \in OtherNames }

Offered == IF parent = "Home" THEN PageLists ELSE FileLists(Names)

Keys == {"Enter", "Escape", "a"}

(***************************************************************************)
(* FileDropZone.                                                           *)
(***************************************************************************)
\* variant: the accept string may occur anywhere in the lower-cased name
isValidFile_includes(file, acc) ==
    LET name == toLowerCase(file)
    IN \E k \in 1..(Len(name) - Len(acc) + 1) : SubSeq(name, k, k + Len(acc) - 1) = acc

isValidFile(file, acc) ==
    LET extension == slice(toLowerCase(file), lastIndexOf(file, "."))
    IN extension = acc

OnlyMessage(acc) == <<"Only ">> \o acc \o <<" files are accepted">>

Call(cb, arg) == [cb |-> cb, arg |-> arg]

handleFileSelect(file) ==
    /\ errorMessage' = <<>>
    /\ fileName' = file
    /\ state' = "selected"
    /\ calls' = <<Call("onFileSelected", Some(file))>>

clearSelection ==
    /\ fileName' = <<>>
    /\ state' = "idle"
    /\ calls' = <<Call("onFileSelected", Null)>>
    /\ UNCHANGED errorMessage

handleDragEnter ==
    /\ state' = "dragging"
    /\ calls' = <<>>
    /\ UNCHANGED <<errorMessage, fileName>>

\* variant: drag over shows the dragging state
handleDragOver_setsDragging ==
    /\ state' = "dragging"
    /\ calls' = <<>>
    /\ UNCHANGED <<errorMessage, fileName>>

handleDragOver ==
    /\ calls' = <<>>
    /\ UNCHANGED <<state, errorMessage, fileName>>

handleDragLeave ==
    /\ state' = "idle"
    /\ calls' = <<>>
    /\ UNCHANGED <<errorMessage, fileName>>

\* variant: the last dropped file is the one considered
handleDrop_lastFile(files) ==
    IF Len(files) = 0
    THEN /\ state' = "idle"
         /\ calls' = <<>>
         /\ UNCHANGED <<errorMessage, fileName>>
    ELSE IF ~isValidFile(files[Len(files)], accept)
         THEN /\ state' = "error"
              /\ errorMessage' = OnlyMessage(accept)
              /\ calls' = <<Call("onError", OnlyMessage(accept))>>
              /\ UNCHANGED fileName
         ELSE handleFileSelect(files[Len(files)])

\* variant: the first dropped file is selected without the extension check
handleDrop_noCheck(files) ==
    IF Len(files) = 0
    THEN /\ state' = "idle"
         /\ calls' = <<>>
         /\ UNCHANGED <<errorMessage, fileName>>
    ELSE handleFileSelect(files[1])

handleDrop(files) ==
    IF Len(files) = 0
    THEN /\ state' = "idle"
         /\ calls' = <<>>
         /\ UNCHANGED <<errorMessage, fileName>>
    ELSE IF ~isValidFile(files[1], accept)
         THEN /\ state' = "error"
              /\ errorMessage' = OnlyMessage(accept)
              /\ calls' = <<Call("onError", OnlyMessage(accept))>>
              /\ UNCHANGED fileName
         ELSE handleFileSelect(files[1])

\* variant: a change event without files puts the widget back to "idle"
handleFileInputChange_emptyIdle(files) ==
    IF Len(files) = 0
    THEN /\ inputValue' = <<>>
         /\ calls' = <<>>
         /\ state' = "idle"
         /\ UNCHANGED <<errorMessage, fileName>>
    ELSE IF ~isValidFile(files[1], accept)
         THEN /\ state' = "error"
              /\ errorMessage' = OnlyMessage(accept)
              /\ calls' = <<Call("onError", OnlyMessage(accept))>>
              /\ inputValue' = files[1]
              /\ UNCHANGED fileName
         ELSE /\ handleFileSelect(files[1])
              /\ inputValue' = <<>>

\* the browser has set the input's value to the first chosen file before the
\* change event; the handler resets it only on the accepting path
handleFileInputChange(files) ==
    IF Len(files) = 0
    THEN /\ inputValue' = <<>>
         /\ calls' = <<>>
         /\ UNCHANGED <<state, errorMessage, fileName>>
    ELSE IF ~isValidFile(files[1], accept)
         THEN /\ state' = "error"
              /\ errorMessage' = OnlyMessage(accept)
              /\ calls' = <<Call("onError", OnlyMessage(accept))>>
              /\ inputValue' = files[1]
              /\ UNCHANGED fileName
         ELSE /\ handleFileSelect(files[1])
              /\ inputValue' = <<>>

\* variant: Escape clears whatever the state is
DropZoneHandleKeyDown_anyState(key) ==
    IF key = "Escape"
    THEN clearSelection
    ELSE /\ calls' = <<>>
         /\ UNCHANGED <<state, errorMessage, fileName>>

DropZoneHandleKeyDown(key) ==
    IF key = "Escape" /\ state = "selected"
    THEN clearSelection
    ELSE /\ calls' = <<>>
         /\ UNCHANGED <<state, errorMessage, fileName>>

(***************************************************************************)
(* SubmitButton.                                                           *)
(***************************************************************************)
\* variant: the button stays enabled while uploading
isDisabled_onlyDisabled(st) == st = "disabled"

\* variant: the button is also disabled after a success
isDisabled_successToo(st) == st = "disabled" \/ st = "uploading" \/ st = "success"

isDisabled(st) == st = "disabled" \/ st = "uploading"

(***************************************************************************)
(* HTTP client: what an uploadFile / apiGet promise settles to, given what *)
(* fetch did.  A settlement is [threw, value]; a thrown value is an Error  *)
(* [name, message, status].                                                *)
(***************************************************************************)
Records == { [symbol |-> "AAA", price |-> 1], [symbol |-> "BBB", price |-> 2] }

Response(st, text, json) ==
    [rejected |-> FALSE, ok |-> (st >= 200 /\ st <= 299), status |-> st,
     text |-> text, json |-> json]

\* what fetch settles to for the page's requests: a rejection, a 200 with a
\* JSON record, a 500 with an empty body.  In a response, text = Null means
\* reading the body as text fails and json = Null that the body is not JSON.
FetchOutcomes ==
    { [rejected |-> TRUE, ok |-> FALSE, status |-> 0, text |-> Null, json |-> Null] }
    \cup { Response(200, Some(<<"{..}">>), Some(r)) : r \in Records }
    \cup { Response(500, Some(<<>>), Null) }

Return(v) == [threw |-> FALSE, value |-> v]
Throw(e) == [threw |-> TRUE, value |-> e]

ApiError(message, st) == [name |-> "ApiError", message |-> message, status |-> Some(st)]

\* variant: the body of a failed response is never read
handleResponse_fixedMessage(response) ==
    IF ~response.ok
    THEN Throw(ApiError(<<"Request failed">>, response.status))
    ELSE IF response.json = Null
         THEN Throw([name |-> "SyntaxError", message |-> <<"Unexpected token">>,
                     status |-> Null])
         ELSE Return(response.json[1])

handleResponse(response) ==
    IF ~response.ok
    THEN LET message == IF response.text = Null THEN <<"Request failed">>
                        ELSE response.text[1]
         IN Throw(ApiError(message, response.status))
    ELSE IF response.json = Null
         THEN Throw([name |-> "SyntaxError", message |-> <<"Unexpected token">>,
                     status |-> Null])
         ELSE Return(response.json[1])

\* variant: a transport failure is wrapped in an ApiError of status 0
uploadFile_wrapsRejection(fetched) ==
    IF fetched.rejected
    THEN Throw(ApiError(<<"Failed to fetch">>, 0))
    ELSE handleResponse(fetched)

\* uploadFile after its fetch settled (apiGet settles the same way)
uploadFile(fetched) ==
    IF fetched.rejected
    THEN Throw([name |-> "TypeError", message |-> <<"Failed to fetch">>, status |-> Null])
    ELSE handleResponse(fetched)

apiGet(fetched) == uploadFile(fetched)

apiPost(fetched) == uploadFile(fetched)

(***************************************************************************)
(* Home.                                                                   *)
(***************************************************************************)
\* variant: a file reported while one is selected does not replace it
handleFileSelected_keepFirst(file) ==
    /\ selectedFile' = IF file # Null /\ selectedFile # Null THEN selectedFile ELSE file
    /\ uploadStatus' = IF file # Null THEN "ready" ELSE "disabled"
    /\ uploadMessage' = <<>>
    /\ result' = Null
    /\ UNCHANGED <<status, probe, uploadCalls, apiGetCalls>>

\* variant: a report leaves result as it is
handleFileSelected_keepResult(file) ==
    /\ selectedFile' = file
    /\ uploadStatus' = IF file # Null THEN "ready" ELSE "disabled"
    /\ uploadMessage' = <<>>
    /\ UNCHANGED <<result, status, probe, uploadCalls, apiGetCalls>>

handleFileSelected(file) ==
    /\ selectedFile' = file
    /\ uploadStatus' = IF file # Null THEN "ready" ELSE "disabled"
    /\ uploadMessage' = <<>>
    /\ result' = Null
    /\ UNCHANGED <<status, probe, uploadCalls, apiGetCalls>>

\* the onError prop Home passes to FileDropZone
\* variant: the error of the widget also ends the upload lifecycle in error
HomeOnError_setsError(message) ==
    /\ uploadMessage' = <<"Error: ">> \o message
    /\ uploadStatus' = "error"
    /\ UNCHANGED <<status, selectedFile, result, probe, uploadCalls, apiGetCalls>>

HomeOnError(message) ==
    /\ uploadMessage' = <<"Error: ">> \o message
    /\ UNCHANGED <<status, selectedFile, uploadStatus, result, probe, uploadCalls, apiGetCalls>>

\* handleUpload up to its await; log is what the step has called so far
\* variant: handleUpload does nothing unless the backend probe succeeded
handleUpload_needsConnection(log) ==
    IF selectedFile = Null \/ status # "connected"
    THEN /\ calls' = log
         /\ UNCHANGED homeVars
    ELSE /\ uploadCalls < uploadBudget
         /\ uploadStatus' = "uploading"
         /\ result' = Null
         /\ uploadCalls' = uploadCalls + 1
         /\ pending' = pending \cup
                { [id |-> uploadCalls + 1, file |-> selectedFile[1], fresh |-> TRUE] }
         /\ calls' = Append(log, Call("uploadFile", <<"/upload", selectedFile[1]>>))
         /\ UNCHANGED <<status, selectedFile, uploadMessage, probe, apiGetCalls>>

handleUpload(log) ==
    IF selectedFile = Null
    THEN /\ calls' = log
         /\ UNCHANGED homeVars
    ELSE /\ uploadCalls < uploadBudget
         /\ uploadStatus' = "uploading"
         /\ result' = Null
         /\ uploadCalls' = uploadCalls + 1
         /\ pending' = pending \cup
                { [id |-> uploadCalls + 1, file |-> selectedFile[1], fresh |-> TRUE] }
         /\ calls' = Append(log, Call("uploadFile", <<"/upload", selectedFile[1]>>))
         /\ UNCHANGED <<status, selectedFile, uploadMessage, probe, apiGetCalls>>

\* variant: the success continuation leaves uploadMessage as it is
handleUploadSettled_keepMessage(settled) ==
    IF ~settled.threw
    THEN /\ uploadStatus' = "success"
         /\ result' = Some(settled.value)
         /\ UNCHANGED uploadMessage
    ELSE /\ uploadStatus' = "error"
         /\ uploadMessage' = <<"Error: ">> \o settled.value.message
         /\ UNCHANGED result

\* handleUpload after its await: the try continuation or the catch block
\* variant: the catch block sets the message but not the upload status
handleUploadSettled_staysUploading(settled) ==
    IF ~settled.threw
    THEN /\ uploadStatus' = "success"
         /\ result' = Some(settled.value)
         /\ uploadMessage' = <<>>
    ELSE /\ uploadMessage' = <<"Error: ">> \o settled.value.message
         /\ UNCHANGED <<uploadStatus, result>>

handleUploadSettled(settled) ==
    IF ~settled.threw
    THEN /\ uploadStatus' = "success"
         /\ result' = Some(settled.value)
         /\ uploadMessage' = <<>>
    ELSE /\ uploadStatus' = "error"
         /\ uploadMessage' = <<"Error: ">> \o settled.value.message
         /\ UNCHANGED result

\* variant: Enter submits whatever uploadStatus is
HomeHandleKeyDown_anyStatus(key) ==
    IF key = "Enter"
    THEN handleUpload(<<>>)
    ELSE /\ calls' = <<>>
         /\ UNCHANGED homeVars

HomeHandleKeyDown(key) ==
    IF key = "Enter" /\ (uploadStatus = "ready" \/ uploadStatus = "error")
    THEN handleUpload(<<>>)
    ELSE /\ calls' = <<>>
         /\ UNCHANGED homeVars

(***************************************************************************)
(* The widget's callbacks as wired by its parent.  fresh is history: an    *)
(* in-flight upload is fresh until the next selection report.              *)
(***************************************************************************)
ParentCallbacks ==
    /\ reported' = IF calls' # <<>> /\ calls'[1].cb = "onFileSelected"
                   THEN calls'[1].arg ELSE reported
    /\ IF parent = "Home" /\ calls' # <<>>
       THEN IF calls'[1].cb = "onFileSelected"
            THEN /\ handleFileSelected(calls'[1].arg)
                 /\ pending' = { [u EXCEPT !.fresh = FALSE] : u \in pending }
            ELSE /\ HomeOnError(calls'[1].arg)
                 /\ UNCHANGED pending
       ELSE UNCHANGED homeVars

(***************************************************************************)
(* Home's keydown effect, deps [uploadStatus, handleUpload]; handleUpload  *)
(* is a new function whenever selectedFile changes.  When a dep changed,   *)
(* the cleanup of the previous run removes its listener and the new run    *)
(* registers a listener closed over the new values.                        *)
(***************************************************************************)
Listener(st, file) == [uploadStatus |-> st, selectedFile |-> file]

RemoveListener(ls, l) ==
    IF \E i \in 1..Len(ls) : ls[i] = l
    THEN LET k == CHOOSE i \in 1..Len(ls) : ls[i] = l
         IN SubSeq(ls, 1, k - 1) \o SubSeq(ls, k + 1, Len(ls))
    ELSE ls

\* variant: the effect returns no cleanup
KeydownEffect_noCleanup ==
    /\ mounted' = mounted
    /\ homeListeners' =
          IF parent = "Home" /\ mounted
             /\ (uploadStatus' # uploadStatus \/ selectedFile' # selectedFile)
          THEN Append(homeListeners, Listener(uploadStatus', selectedFile'))
          ELSE homeListeners

KeydownEffect ==
    /\ mounted' = mounted
    /\ homeListeners' =
          IF parent = "Home" /\ mounted
             /\ (uploadStatus' # uploadStatus \/ selectedFile' # selectedFile)
          THEN Append(RemoveListener(homeListeners, Listener(uploadStatus, selectedFile)),
                      Listener(uploadStatus', selectedFile'))
          ELSE homeListeners

(***************************************************************************)
(* Steps.                                                                  *)
(***************************************************************************)
DragEnter ==
    /\ mounted
    /\ handleDragEnter
    /\ ParentCallbacks
    /\ KeydownEffect
    /\ lastOp' = "DragEnter"
    /\ lastArg' = <<>>
    /\ UNCHANGED <<uploadBudget, parent, accept, inputValue>>
    /\ UNCHANGED httpVars

DragOver ==
    /\ mounted
    /\ handleDragOver
    /\ ParentCallbacks
    /\ KeydownEffect
    /\ lastOp' = "DragOver"
    /\ lastArg' = <<>>
    /\ UNCHANGED <<uploadBudget, parent, accept, inputValue>>
    /\ UNCHANGED httpVars

DragLeave ==
    /\ mounted
    /\ handleDragLeave
    /\ ParentCallbacks
    /\ KeydownEffect
    /\ lastOp' = "DragLeave"
    /\ lastArg' = <<>>
    /\ UNCHANGED <<uploadBudget, parent, accept, inputValue>>
    /\ UNCHANGED httpVars

Drop ==
    \E files \in Offered :
        /\ mounted
        /\ handleDrop(files)
        /\ ParentCallbacks
        /\ KeydownEffect
        /\ lastOp' = "Drop"
        /\ lastArg' = files
        /\ UNCHANGED <<uploadBudget, parent, accept, inputValue>>
        /\ UNCHANGED httpVars

FileInputChange ==
    \E files \in Offered :
        /\ mounted
        /\ handleFileInputChange(files)
        /\ ParentCallbacks
        /\ KeydownEffect
        /\ lastOp' = "FileInputChange"
        /\ lastArg' = files
        /\ UNCHANGED <<uploadBudget, parent, accept>>
        /\ UNCHANGED httpVars

\* the Cancel button is rendered only while state is "selected"
\* handleClick: a click on the zone calls click() on the hidden file input
handleClick ==
    /\ calls' = <<Call("inputClick", <<>>)>>
    /\ UNCHANGED widgetVars

\* a click on the zone outside the cancel button; no callback reaches the parent
ZoneClick ==
    /\ mounted
    /\ handleClick
    /\ lastOp' = "ZoneClick"
    /\ lastArg' = <<>>
    /\ UNCHANGED <<homeVars, reported>>
    /\ UNCHANGED <<uploadBudget, parent, accept, inputValue>>
    /\ KeydownEffect
    /\ UNCHANGED httpVars

\* variant: handleClear without stopPropagation, the click bubbles to the zone
CancelClick_bubbles ==
    /\ mounted
    /\ state = "selected"
    /\ fileName' = <<>>
    /\ state' = "idle"
    /\ calls' = <<Call("onFileSelected", Null), Call("inputClick", <<>>)>>
    /\ UNCHANGED errorMessage
    /\ ParentCallbacks
    /\ KeydownEffect
    /\ lastOp' = "CancelClick"
    /\ lastArg' = <<>>
    /\ UNCHANGED <<uploadBudget, parent, accept, inputValue>>
    /\ UNCHANGED httpVars

CancelClick ==
    /\ mounted
    /\ state = "selected"
    /\ clearSelection
    /\ ParentCallbacks
    /\ KeydownEffect
    /\ lastOp' = "CancelClick"
    /\ lastArg' = <<>>
    /\ UNCHANGED <<uploadBudget, parent, accept, inputValue>>
    /\ UNCHANGED httpVars

\* a keydown on the document reaches the listeners registered on it: the
\* widget's while it is mounted and Home's; no key is handled by both
KeyDown ==
    \E key \in Keys :
        /\ lastOp' = key
        /\ lastArg' = <<>>
        /\ IF key = "Enter" /\ homeListeners # <<>>
           THEN /\ HomeHandleKeyDown(key)
                /\ UNCHANGED <<widgetVars, reported>>
           ELSE IF mounted
                THEN /\ DropZoneHandleKeyDown(key)
                     /\ ParentCallbacks
                ELSE /\ calls' = <<>>
                     /\ UNCHANGED <<widgetVars, homeVars, reported>>
        /\ UNCHANGED <<uploadBudget, parent, accept, inputValue>>
        /\ KeydownEffect
        /\ UNCHANGED httpVars

\* a click on the submit button; a disabled button dispatches no click
SubmitClick ==
    /\ mounted
    /\ IF isDisabled(uploadStatus)
       THEN /\ calls' = <<>>
            /\ UNCHANGED homeVars
       ELSE handleUpload(<<Call("onClick", <<>>)>>)
    /\ lastOp' = "SubmitClick"
    /\ lastArg' = <<>>
    /\ UNCHANGED <<uploadBudget, parent, accept, inputValue, widgetVars>>
    /\ KeydownEffect
    /\ UNCHANGED reported
    /\ UNCHANGED httpVars

\* variant: the settlement of an upload puts the widget back to "idle"
UploadSettle_resetsWidget ==
    \E u \in pending, fetched \in FetchOutcomes :
        /\ IF mounted
           THEN /\ handleUploadSettled(uploadFile(fetched))
                /\ calls' = <<Call("settled", [upload |-> u, outcome |-> uploadFile(fetched)])>>
           ELSE /\ calls' = <<>>
                /\ UNCHANGED <<uploadStatus, result, uploadMessage>>
        /\ pending' = pending \ {u}
        /\ state' = "idle"
        /\ fileName' = <<>>
        /\ lastOp' = "UploadSettle"
        /\ lastArg' = <<>>
        /\ UNCHANGED <<status, selectedFile, probe, uploadCalls, apiGetCalls, reported>>
        /\ UNCHANGED <<uploadBudget, parent, accept, inputValue, errorMessage>>
        /\ KeydownEffect
        /\ UNCHANGED httpVars

\* an uploadFile promise settles; the setState calls of the continuation have
\* no effect once Home is unmounted
UploadSettle ==
    \E u \in pending, fetched \in FetchOutcomes :
        /\ IF mounted
           THEN /\ handleUploadSettled(uploadFile(fetched))
                /\ calls' = <<Call("settled", [upload |-> u, outcome |-> uploadFile(fetched)])>>
           ELSE /\ calls' = <<>>
                /\ UNCHANGED <<uploadStatus, result, uploadMessage>>
        /\ pending' = pending \ {u}
        /\ lastOp' = "UploadSettle"
        /\ lastArg' = <<>>
        /\ UNCHANGED <<status, selectedFile, probe, uploadCalls, apiGetCalls, reported>>
        /\ UNCHANGED <<uploadBudget, parent, accept, inputValue, widgetVars>>
        /\ KeydownEffect
        /\ UNCHANGED httpVars

\* variant: a failed probe is issued again
ProbeSettled_retry(settled) ==
    IF settled.threw
    THEN /\ apiGetCalls' = apiGetCalls + 1
         /\ probe' = IF apiGetCalls < MaxUploads THEN "pending" ELSE "settled"
         /\ status' = "error"
    ELSE /\ probe' = "settled"
         /\ status' = "connected"
         /\ UNCHANGED apiGetCalls

\* the then / catch continuation of the mount effect's apiGet("/")
ProbeSettled(settled) ==
    /\ probe' = "settled"
    /\ status' = IF settled.threw THEN "error" ELSE "connected"
    /\ UNCHANGED apiGetCalls

ProbeSettle ==
    \E fetched \in FetchOutcomes :
        /\ probe = "pending"
        /\ IF mounted
           THEN /\ ProbeSettled(apiGet(fetched))
                /\ calls' = <<Call("probe", apiGet(fetched))>>
           ELSE /\ probe' = "settled"
                /\ calls' = <<>>
                /\ UNCHANGED <<status, apiGetCalls>>
        /\ lastOp' = "ProbeSettle"
        /\ lastArg' = <<>>
        /\ UNCHANGED <<selectedFile, uploadStatus, uploadMessage, result, pending,
                       uploadCalls, reported>>
        /\ UNCHANGED <<uploadBudget, parent, accept, inputValue, widgetVars>>
        /\ KeydownEffect
        /\ UNCHANGED httpVars

\* Home is unmounted: the cleanup of the keydown effect removes its listener
Unmount ==
    /\ mounted
    /\ mounted' = FALSE
    /\ homeListeners' = RemoveListener(homeListeners, Listener(uploadStatus, selectedFile))
    /\ calls' = <<>>
    /\ lastOp' = "Unmount"
    /\ lastArg' = <<>>
    /\ UNCHANGED <<homeVars, reported>>
    /\ UNCHANGED <<uploadBudget, parent, accept, inputValue, widgetVars>>
    /\ UNCHANGED httpVars

(***************************************************************************)
(* Specifications.                                                         *)
(***************************************************************************)
HomeInit ==
    /\ status = "loading"
    /\ selectedFile = Null
    /\ uploadStatus = "disabled"
    /\ uploadMessage = <<>>
    /\ result = Null
    /\ probe = "pending"
    /\ pending = {}
    /\ uploadCalls = 0
    /\ apiGetCalls = 1

DropZoneInit ==
    /\ state = "idle"
    /\ errorMessage = <<>>
    /\ fileName = <<>>
    /\ inputValue = <<>>
    /\ mounted = TRUE
    /\ reported = Null
    /\ lastOp = "mount"
    /\ lastArg = <<>>
    /\ calls = <<>>

\* Home renders <FileDropZone> without an accept prop
\* the modules were loaded with the backend URL configured, no operation
\* of the HTTP layer is observed
HttpIdle ==
    /\ env = Some(<<"http://localhost:8000">>)
    /\ loadedEnv = env
    /\ apiUrl = <<"http://localhost:8000">>
    /\ routeUrl = <<"http://localhost:8000">>
    /\ call = Null
    /\ fetches = <<>>
    /\ reply = Null

PageInit ==
    /\ parent = "Home"
    /\ accept = DefaultAccept
    /\ DropZoneInit
    /\ HomeInit
    /\ homeListeners = <<Listener("disabled", Null)>>
    /\ HttpIdle

Init ==
    /\ uploadBudget = MaxUploads
    /\ PageInit

Next ==
    \/ DragEnter
    \/ DragOver
    \/ DragLeave
    \/ Drop
    \/ FileInputChange
    \/ CancelClick
    \/ ZoneClick
    \/ KeyDown
    \/ SubmitClick
    \/ UploadSettle
    \/ ProbeSettle
    \/ Unmount

Spec == Init /\ [][Next]_vars

\* the page when every promise the browser holds eventually settles: the
\* await of uploadFile and the then/catch of the probe are resumed
LiveInit ==
    /\ uploadBudget = MaxLiveUploads
    /\ PageInit

LiveSpec == LiveInit /\ [][Next]_vars /\ WF_vars(UploadSettle) /\ WF_vars(ProbeSettle)

\* the widget rendered on its own with any accept prop; the Home variables
\* are never touched
WidgetInit ==
    /\ uploadBudget = MaxUploads
    /\ parent = "test"
    /\ accept \in Accepts
    /\ DropZoneInit
    /\ HomeInit
    /\ homeListeners = <<>>
    /\ HttpIdle

WidgetNext ==
    \/ DragEnter
    \/ DragOver
    \/ DragLeave
    \/ Drop
    \/ FileInputChange
    \/ CancelClick
    \/ ZoneClick
    \/ KeyDown

WidgetSpec == WidgetInit /\ [][WidgetNext]_vars

(***************************************************************************)
(* The HTTP client (lib/api) and the health route, one operation at a      *)
(* time: the operation passes its request to fetch, fetch settles, the     *)
(* operation settles.                                                      *)
(***************************************************************************)
\* values of NEXT_PUBLIC_API_URL: not set, the backend of the test setup,
\* another backend
Envs == { Null, Some(<<"http://localhost:8000">>), Some(<<"http://custom-backend:9000">>) }

\* `${v}` of a template literal: undefined is rendered as "undefined"
TemplateString(v) == IF v = Null THEN <<"undefined">> ELSE v[1]

JsonNull == "null"
EmptyObject == <<>>

\* response bodies: the text on the wire and, when it is JSON, its parse
JsonBodies ==
    { [text |-> <<"{\"message\":\"ok\"}">>, json |-> [message |-> "ok"]],
      [text |-> <<"{}">>, json |-> EmptyObject],
      [text |-> <<"{\"data\":null}">>, json |-> [data |-> JsonNull]] }

ErrorBody == [text |-> <<"{\"error\":\"Internal server error\"}">>,
              json |-> [error |-> "Internal server error"]]

\* what fetch settles to: a rejection (network error, timeout), a 200 with a
\* JSON body or with a body that is not JSON, a 404 with a text body, a 500
\* with a JSON body, with an empty body or with a body that cannot be read
HttpFetchOutcomes ==
    { [rejected |-> TRUE, ok |-> FALSE, status |-> 0, text |-> Null, json |-> Null] }
    \cup { Response(200, Some(b.text), Some(b.json)) : b \in JsonBodies }
    \cup { Response(200, Some(<<"<html>">>), Null),
           Response(404, Some(<<"Not found">>), Null),
           Response(500, Some(ErrorBody.text), Some(ErrorBody.json)),
           Response(500, Some(<<>>), Null),
           Response(500, Null, Null) }

JsonHeaders == { <<"Content-Type", "application/json">> }

apiGetRequest(path) ==
    [url |-> apiUrl \o path, method |-> "GET", headers |-> JsonHeaders, body |-> Null]

apiPostRequest(path, data) ==
    [url |-> apiUrl \o path, method |-> "POST", headers |-> JsonHeaders,
     body |-> Some([kind |-> "json", value |-> data])]

\* variant: uploadFile sends the JSON content-type header too
uploadFileRequest_jsonHeaders(path, file) ==
    [url |-> apiUrl \o path, method |-> "POST", headers |-> JsonHeaders,
     body |-> Some([kind |-> "formdata", value |-> <<<<"file", file>>>>])]

uploadFileRequest(path, file) ==
    [url |-> apiUrl \o path, method |-> "POST", headers |-> {},
     body |-> Some([kind |-> "formdata", value |-> <<<<"file", file>>>>])]

\* variant: the route reads the environment at each invocation
GETRequest_readsEnv ==
    [url |-> TemplateString(env) \o <<"/">>, method |-> "GET", headers |-> {}, body |-> Null]

GETRequest == [url |-> routeUrl \o <<"/">>, method |-> "GET", headers |-> {}, body |-> Null]

ClientCalls ==
    { [op |-> "apiGet", path |-> <<"/">>, arg |-> Null],
      [op |-> "apiGet", path |-> <<"/users/123">>, arg |-> Null],
      [op |-> "apiPost", path |-> <<"/data">>, arg |-> Some([name |-> "test"])],
      [op |-> "uploadFile", path |-> <<"/upload">>, arg |-> Some(<<"a", ".", "j", "s", "o", "n">>)] }

RequestOf(c) ==
    CASE c.op = "apiGet" -> apiGetRequest(c.path)
      [] c.op = "apiPost" -> apiPostRequest(c.path, c.arg[1])
      [] c.op = "uploadFile" -> uploadFileRequest(c.path, c.arg[1])

SettleOf(c, fetched) ==
    CASE c.op = "apiGet" -> apiGet(fetched)
      [] c.op = "apiPost" -> apiPost(fetched)
      [] c.op = "uploadFile" -> uploadFile(fetched)

NextResponseJson(body, st) == [status |-> st, body |-> body]

\* variant: the success envelope carries no backend_response
GET_noPayload(fetched) ==
    IF fetched.rejected \/ fetched.json = Null
    THEN NextResponseJson([status |-> "error",
                           message |-> "Failed to fetch data from backend"], 503)
    ELSE NextResponseJson([status |-> "success",
                           message |-> "Backend data fetched successfully"], 200)

\* the route handler after its fetch settled: response.json() is read
\* whatever the status of the response, any throw lands in the catch
GET(fetched) ==
    IF fetched.rejected \/ fetched.json = Null
    THEN NextResponseJson([status |-> "error",
                           message |-> "Failed to fetch data from backend"], 503)
    ELSE NextResponseJson([status |-> "success",
                           message |-> "Backend data fetched successfully",
                           backend_response |-> fetched.json[1]], 200)

pageVars == <<uploadBudget, parent, accept, inputValue, widgetVars, homeVars, mounted, homeListeners, reported>>

ClientCall ==
    \E c \in ClientCalls :
        /\ call = Null
        /\ call' = Some(c)
        /\ fetches' = <<RequestOf(c)>>
        /\ reply' = Null
        /\ lastOp' = "ClientCall"
        /\ lastArg' = <<>>
        /\ calls' = <<>>
        /\ UNCHANGED <<loadVars, pageVars>>

\* variant: a request that fails in transport is issued a second time
ClientSettle_retry ==
    \E fetched \in HttpFetchOutcomes :
        /\ call # Null
        /\ call[1].op # "GET"
        /\ reply' = Some([op |-> call[1].op, fetched |-> fetched,
                          settled |-> SettleOf(call[1], fetched)])
        /\ fetches' = IF fetched.rejected THEN Append(fetches, fetches[1]) ELSE fetches
        /\ call' = Null
        /\ lastOp' = "ClientSettle"
        /\ lastArg' = <<>>
        /\ calls' = <<>>
        /\ UNCHANGED <<loadVars, pageVars>>

ClientSettle ==
    \E fetched \in HttpFetchOutcomes :
        /\ call # Null
        /\ call[1].op # "GET"
        /\ reply' = Some([op |-> call[1].op, fetched |-> fetched,
                          settled |-> SettleOf(call[1], fetched)])
        /\ call' = Null
        /\ lastOp' = "ClientSettle"
        /\ lastArg' = <<>>
        /\ calls' = <<>>
        /\ UNCHANGED <<loadVars, fetches, pageVars>>

HealthRequest ==
    /\ call = Null
    /\ call' = Some([op |-> "GET", path |-> <<"/api/health">>, arg |-> Null])
    /\ fetches' = <<GETRequest>>
    /\ reply' = Null
    /\ lastOp' = "HealthRequest"
    /\ lastArg' = <<>>
    /\ calls' = <<>>
    /\ UNCHANGED <<loadVars, pageVars>>

HealthSettle ==
    \E fetched \in HttpFetchOutcomes :
        /\ call # Null
        /\ call[1].op = "GET"
        /\ reply' = Some([op |-> "GET", fetched |-> fetched, settled |-> GET(fetched)])
        /\ call' = Null
        /\ lastOp' = "HealthSettle"
        /\ lastArg' = <<>>
        /\ calls' = <<>>
        /\ UNCHANGED <<loadVars, fetches, pageVars>>

\* the process changes or deletes NEXT_PUBLIC_API_URL after the modules
\* were loaded
SetEnv ==
    \E v \in Envs :
        /\ v # env
        /\ env' = v
        /\ lastOp' = "SetEnv"
        /\ lastArg' = <<>>
        /\ calls' = <<>>
        /\ UNCHANGED <<loadedEnv, apiUrl, routeUrl, call, fetches, reply, pageVars>>

HttpInit ==
    /\ uploadBudget = MaxUploads
    /\ parent = "none"
    /\ accept = DefaultAccept
    /\ DropZoneInit
    /\ HomeInit
    /\ homeListeners = <<>>
    /\ env \in Envs
    /\ loadedEnv = env
    /\ apiUrl = TemplateString(env)
    /\ routeUrl = TemplateString(env)
    /\ call = Null
    /\ fetches = <<>>
    /\ reply = Null

HttpNext ==
    \/ ClientCall
    \/ ClientSettle
    \/ HealthRequest
    \/ HealthSettle
    \/ SetEnv

HttpSpec == HttpInit /\ [][HttpNext]_vars

(***************************************************************************)
(* Helpers of the properties.                                              *)
(***************************************************************************)
CountCalls(log, cb) == Cardinality({ i \in DOMAIN log : log[i].cb = cb })

UploadedFiles(log) == { log[i].arg[2] : i \in { j \in DOMAIN log : log[j].cb = "uploadFile" } }

FileEvent == lastOp \in {"Drop", "FileInputChange"} /\ lastArg # <<>>

(***************************************************************************)
(* Properties.                                                             *)
(***************************************************************************)

\* C1: in every reachable state of the page at most one uploadFile call is
\* in flight (a second call never starts before the previous one settled).
C1_AtMostOneUploadInFlight == Cardinality(pending) <= 1

\* C2: while uploadStatus is "uploading", a click on the submit button or an
\* Enter keypress starts no upload call: the number of calls and the set of
\* calls in flight stay as they are.
C2_NoCallWhileUploading ==
    [][ (uploadStatus = "uploading" /\ lastOp' \in {"SubmitClick", "Enter"})
            => (uploadCalls' = uploadCalls /\ pending' = pending) ]_vars

C2_Witness ==
    /\ lastOp = "Enter"
    /\ uploadStatus = "uploading"
    /\ calls = <<>>
    /\ Cardinality(pending) = 1

\* C3: a click on the submit button invokes onClick exactly once when the
\* state it was rendered with is "ready", "error" or "success", and not at
\* all when that state is "disabled" or "uploading".
C3_ClickIffEnabled ==
    [][ lastOp' = "SubmitClick"
            => CountCalls(calls', "onClick")
                 = (IF uploadStatus \in {"ready", "error", "success"} THEN 1 ELSE 0) ]_vars

C3_Witness ==
    /\ lastOp = "SubmitClick"
    /\ uploadStatus = "success"
    /\ CountCalls(calls, "onClick") = 1

\* C4: an Enter keypress on the mounted page starts an upload call iff Home
\* holds a selected file and uploadStatus is "ready" or "error"; otherwise it
\* starts none and changes no state of Home.
C4_EnterStartsUploadIff ==
    [][ (lastOp' = "Enter" /\ mounted)
            => IF selectedFile # Null /\ uploadStatus \in {"ready", "error"}
               THEN /\ CountCalls(calls', "uploadFile") = 1
                    /\ uploadCalls' = uploadCalls + 1
               ELSE /\ CountCalls(calls', "uploadFile") = 0
                    /\ UNCHANGED homeVars ]_vars

C4_Witness ==
    /\ lastOp = "Enter"
    /\ CountCalls(calls, "uploadFile") = 1
    /\ uploadStatus = "uploading"

\* C5: after a drop or a file-input change whose first file's name does not
\* end, ignoring case, with the accept prop, the widget is in state "error",
\* its message is "Only <accept> files are accepted", onError was called
\* exactly once with that message and onFileSelected was not called.
C5_InvalidFileRejected ==
    (FileEvent /\ ~EndsWithIgnoreCase(lastArg[1], accept))
        => /\ state = "error"
           /\ errorMessage = OnlyMessage(accept)
           /\ calls = <<Call("onError", OnlyMessage(accept))>>

C5_Witness ==
    /\ lastOp = "FileInputChange"
    /\ lastArg # <<>>
    /\ ~EndsWithIgnoreCase(lastArg[1], accept)
    /\ state = "error"
    /\ accept # DefaultAccept

\* C6: after a drop or a file-input change whose first file's name ends,
\* ignoring case, with the accept prop (whatever the accept prop is), the
\* widget is in state "selected", shows that file's name, has no error
\* message, and onFileSelected was called with exactly that file.
C6_ValidFileAccepted ==
    (FileEvent /\ EndsWithIgnoreCase(lastArg[1], accept))
        => /\ state = "selected"
           /\ fileName = lastArg[1]
           /\ errorMessage = <<>>
           /\ calls = <<Call("onFileSelected", Some(lastArg[1]))>>

\* C7: while the widget is in state "selected", the Cancel button and the
\* Escape key each set the state to "idle", clear the file name and call
\* onFileSelected once with null; in any other state Escape changes nothing
\* in the widget and calls nothing.
C7_CancelAndEscape ==
    [][ lastOp' \in {"CancelClick", "Escape"}
            => IF state = "selected"
               THEN /\ state' = "idle"
                    /\ fileName' = <<>>
                    /\ calls' = <<Call("onFileSelected", Null)>>
               ELSE /\ lastOp' = "Escape"
                    /\ calls' = <<>>
                    /\ UNCHANGED <<state, errorMessage, fileName, inputValue>> ]_vars

C7_Witness ==
    /\ lastOp = "Escape"
    /\ state = "idle"
    /\ fileName = <<>>
    /\ calls = <<Call("onFileSelected", Null)>>

\* C8: no file that fails the widget's extension check is ever passed to
\* uploadFile, neither by the call a step makes nor by a call in flight.
C8_OnlyValidFilesUploaded ==
    /\ \A f \in UploadedFiles(calls) : isValidFile(f, accept)
    /\ \A u \in pending : isValidFile(u.file, accept)

C8_Witness ==
    /\ lastOp = "Enter"
    /\ state = "error"
    /\ CountCalls(calls, "uploadFile") = 1

\* C9: once the widget has reported a file (or null) to Home, an upload that
\* was started before that report leaves result empty when it resolves.
C9_StaleUploadLeavesResultEmpty ==
    [][ (lastOp' = "UploadSettle" /\ \E u \in pending : u \notin pending' /\ ~u.fresh)
            => result' = Null ]_vars

\* C10: when an upload call fails, uploadStatus is "error", uploadMessage is
\* "Error: <message>" with "Upload failed" standing in for an absent
\* message, and result is empty.
C10_FailedUpload ==
    (lastOp = "UploadSettle" /\ calls # <<>> /\ calls[1].arg.outcome.threw)
        => LET message == calls[1].arg.outcome.value.message
           IN /\ uploadStatus = "error"
              /\ uploadMessage = <<"Error: ">> \o
                    (IF message = <<>> THEN <<"Upload failed">> ELSE message)
              /\ result = Null

\* C11: when an upload call succeeds, Home sets uploadStatus to "success",
\* result to the returned record and uploadMessage to the empty string.
C11_SucceededUpload ==
    (lastOp = "UploadSettle" /\ calls # <<>> /\ ~calls[1].arg.outcome.threw)
        => /\ uploadStatus = "success"
           /\ result = Some(calls[1].arg.outcome.value)
           /\ uploadMessage = <<>>

C11_Witness ==
    /\ lastOp = "UploadSettle"
    /\ calls # <<>>
    /\ ~calls[1].arg.outcome.threw
    /\ state = "error"
    /\ result = Some(calls[1].arg.outcome.value)
    /\ uploadMessage = <<>>

\* C12: an HTTP client operation whose response has a status outside
\* 200..299 fails with an ApiError carrying that status and the body text,
\* or "Request failed" when the body cannot be read; an operation whose
\* response is successful with a JSON body returns the parsed body.
C12_ClientContract ==
    (reply # Null /\ reply[1].op # "GET" /\ ~reply[1].fetched.rejected)
        => LET r == reply[1].fetched
               out == reply[1].settled
           IN IF r.status < 200 \/ r.status > 299
              THEN /\ out.threw
                   /\ out.value.name = "ApiError"
                   /\ out.value.status = Some(r.status)
                   /\ out.value.message =
                         (IF r.text = Null THEN <<"Request failed">> ELSE r.text[1])
              ELSE r.json # Null => out = Return(r.json[1])

C12_Witness ==
    /\ reply # Null
    /\ reply[1].op = "apiPost"
    /\ reply[1].fetched.status = 404
    /\ reply[1].settled.threw
    /\ reply[1].settled.value.message = <<"Not found">>

HealthReplied == reply # Null /\ reply[1].op = "GET"

ErrorEnvelope ==
    NextResponseJson([status |-> "error", message |-> "Failed to fetch data from backend"], 503)

\* C13: the health route responds 503 with the error envelope on every
\* failure: a rejected fetch, a body that is not JSON, a backend response
\* with a status outside 200..299.
C13_ProxyFailure ==
    (HealthReplied
       /\ (\/ reply[1].fetched.rejected
           \/ reply[1].fetched.json = Null
           \/ ~reply[1].fetched.ok))
        => reply[1].settled = ErrorEnvelope

\* C14: when the backend answers GET / successfully with a JSON body B, the
\* health route responds 200 with the success envelope carrying B unchanged,
\* and it has issued exactly one backend request.
C14_ProxySuccess ==
    (HealthReplied /\ reply[1].fetched.ok /\ reply[1].fetched.json # Null)
        => /\ reply[1].settled =
                 NextResponseJson([status |-> "success",
                                   message |-> "Backend data fetched successfully",
                                   backend_response |-> reply[1].fetched.json[1]], 200)
           /\ fetches = <<[url |-> routeUrl \o <<"/">>, method |-> "GET",
                           headers |-> {}, body |-> Null]>>

C14_Witness ==
    /\ HealthReplied
    /\ reply[1].fetched.ok
    /\ reply[1].settled.status = 200
    /\ reply[1].settled.body.backend_response = EmptyObject
    /\ Len(fetches) = 1

\* C15: Home issues exactly one apiGet per mount; status is "loading" while
\* the probe is pending, becomes "connected" when the probe resolves and
\* "error" when it throws, and never changes once it has left "loading".
C15_ProbeOnce ==
    [][ /\ apiGetCalls = 1 /\ apiGetCalls' = 1
        /\ (probe = "pending" => status = "loading")
        /\ (status # "loading" => status' = status)
        /\ (lastOp' = "ProbeSettle" /\ mounted)
              => /\ status = "loading"
                 /\ status' = IF calls'[1].arg.threw THEN "error" ELSE "connected" ]_vars

C15_Witness ==
    /\ lastOp = "ProbeSettle"
    /\ calls # <<>>
    /\ calls[1].arg.threw
    /\ status = "error"
    /\ apiGetCalls = 1
    /\ probe = "settled"

\* C16: while Home is mounted exactly one keydown listener of Home is
\* registered on the document; after unmount none is, and an Enter keypress
\* after unmount starts no upload.
C16_OneEnterListener ==
    [][ /\ Len(homeListeners) = (IF mounted THEN 1 ELSE 0)
        /\ Len(homeListeners') = (IF mounted' THEN 1 ELSE 0)
        /\ (~mounted /\ lastOp' = "Enter")
              => (uploadCalls' = uploadCalls /\ pending' = pending /\ calls' = <<>>) ]_vars

C16_Witness ==
    /\ ~mounted
    /\ lastOp = "Enter"
    /\ selectedFile # Null
    /\ uploadStatus = "ready"
    /\ homeListeners = <<>>
    /\ calls = <<>>

\* C17: whenever the widget reports a value through onFileSelected, Home
\* sets selectedFile to it, uploadStatus to "ready" for a file and to
\* "disabled" for no file, clears uploadMessage and result, and leaves
\* status unchanged.
C17_SelectionReported ==
    [][ (calls' # <<>> /\ calls'[1].cb = "onFileSelected")
            => /\ selectedFile' = calls'[1].arg
               /\ uploadStatus' = (IF calls'[1].arg = Null THEN "disabled" ELSE "ready")
               /\ uploadMessage' = <<>>
               /\ result' = Null
               /\ status' = status ]_vars

C17_Witness ==
    /\ lastOp = "Drop"
    /\ calls = <<Call("onFileSelected", Some(<<"a", ".", "J", "S", "O", "N">>))>>
    /\ selectedFile = Some(<<"a", ".", "J", "S", "O", "N">>)
    /\ uploadStatus = "ready"
    /\ status = "error"
    /\ uploadCalls > 0

\* C18: every upload call of Home has the path "/upload" and, as its file,
\* the file the widget reported last before the submission; a drop of one
\* valid file followed by one Enter keypress makes exactly one upload call,
\* with that file.
C18_UploadsLastReported ==
    [][ /\ \A i \in DOMAIN calls' :
              calls'[i].cb = "uploadFile"
                  => (reported # Null /\ calls'[i].arg = <<"/upload", reported[1]>>)
        /\ (/\ lastOp = "Drop" /\ FileEvent
            /\ isValidFile(lastArg[1], accept)
            /\ uploadCalls = 0
            /\ lastOp' = "Enter")
              => /\ uploadCalls' = 1
                 /\ calls' = <<Call("uploadFile", <<"/upload", lastArg[1]>>)>> ]_vars

C18_Witness ==
    /\ lastOp = "Enter"
    /\ uploadCalls = 2
    /\ calls = <<Call("uploadFile", <<"/upload", <<"a", ".", "J", "S", "O", "N">>>>)>>
    /\ \E u \in pending : u.file = <<"a", ".", "j", "s", "o", "n">>

\* C19: uploadStatus starts at "disabled" and changes only along the stated
\* transitions: to "uploading" only at a submission with a selected file, to
\* "success" or "error" only from "uploading" at the settlement of an upload
\* call, to "disabled" or "ready" only at a report of the widget.
C19_LifecycleTransitions ==
    [][ /\ (lastOp = "mount" => uploadStatus = "disabled")
        /\ (uploadStatus' # uploadStatus)
              => CASE uploadStatus' = "uploading"
                        -> lastOp' \in {"SubmitClick", "Enter"} /\ selectedFile # Null
                   [] uploadStatus' \in {"success", "error"}
                        -> lastOp' = "UploadSettle" /\ uploadStatus = "uploading"
                   [] uploadStatus' \in {"disabled", "ready"}
                        -> calls' # <<>> /\ calls'[1].cb = "onFileSelected" ]_vars

\* C20: uploadStatus is "disabled" iff Home holds no selected file.
C20_DisabledIffNoFile ==
    (uploadStatus = "disabled") <=> (selectedFile = Null)

\* C21: the widget is in state "selected" iff Home holds a selected file, and
\* the widget's fileName is then the name of that file.
C21_WidgetAndHomeAgree ==
    /\ (state = "selected") <=> (selectedFile # Null)
    /\ (state = "selected") => (fileName = selectedFile[1])

\* C22: the widget starts in state "idle"; it goes from "selected" to "idle"
\* only through the cancel button or the Escape key; drag enter, drag leave
\* and a drop of zero files leave a "selected" widget "selected".
C22_LeavesSelectedOnlyByCancel ==
    [][ /\ (lastOp = "mount" => state = "idle")
        /\ (state = "selected" /\ state' = "idle")
              => lastOp' \in {"CancelClick", "Escape"}
        /\ (/\ state = "selected"
            /\ \/ lastOp' \in {"DragEnter", "DragLeave"}
               \/ (lastOp' = "Drop" /\ lastArg' = <<>>))
              => state' = "selected" ]_vars

InvalidFileStep ==
    /\ lastOp' \in {"Drop", "FileInputChange"}
    /\ lastArg' # <<>>
    /\ ~isValidFile(lastArg'[1], accept)

UploadStep == lastOp' \in {"SubmitClick", "Enter", "UploadSettle"}

WidgetStep ==
    lastOp' \in {"DragEnter", "DragOver", "DragLeave", "Drop", "FileInputChange",
                 "CancelClick", "Escape", "a"}

HomeState == <<status, selectedFile, uploadStatus, uploadMessage, result>>

C25_ResultIffSuccess ==
    (result # Null) <=> (uploadStatus = "success")

\* C26: uploadMessage and result of Home are never both present.
C26_MessageExcludesResult ==
    (uploadMessage # <<>>) => (result = Null)

\* C27: after every file-input change with at least one file, accepted or
\* rejected, the value of the file input is empty.
C27_InputValueReset ==
    (lastOp = "FileInputChange" /\ lastArg # <<>>) => inputValue = <<>>

\* C28: the outcome of a drop or a file-input change with files is decided
\* by the first file alone: state, messages, fileName and the callbacks are
\* those of selecting or rejecting the first file, and no other file is
\* passed to onFileSelected.
C28_FirstFileDecides ==
    [][ (lastOp' \in {"Drop", "FileInputChange"} /\ lastArg' # <<>>)
            => LET f == lastArg'[1]
               IN IF isValidFile(f, accept)
                  THEN /\ state' = "selected"
                       /\ fileName' = f
                       /\ errorMessage' = <<>>
                       /\ calls' = <<Call("onFileSelected", Some(f))>>
                  ELSE /\ state' = "error"
                       /\ fileName' = fileName
                       /\ errorMessage' = OnlyMessage(accept)
                       /\ calls' = <<Call("onError", OnlyMessage(accept))>> ]_vars

C28_Witness ==
    /\ lastOp = "Drop"
    /\ Len(lastArg) >= 2
    /\ ~isValidFile(lastArg[1], accept)
    /\ isValidFile(lastArg[2], accept)
    /\ state = "error"
    /\ calls = <<Call("onError", OnlyMessage(accept))>>

\* C29: a drop of zero files sets the widget state to "idle" and calls no
\* callback; a file-input change with zero files changes no state of the
\* widget and calls no callback.
C29_ZeroFiles ==
    [][ /\ (lastOp' = "Drop" /\ lastArg' = <<>>)
              => (state' = "idle" /\ calls' = <<>>)
        /\ (lastOp' = "FileInputChange" /\ lastArg' = <<>>)
              => (calls' = <<>> /\ UNCHANGED <<state, errorMessage, fileName>>) ]_vars

C29_Witness ==
    /\ lastOp = "FileInputChange"
    /\ lastArg = <<>>
    /\ state = "selected"
    /\ fileName # <<>>
    /\ calls = <<>>

\* C30: drag enter, drag over and drag leave call no callback; drag over
\* leaves the widget state unchanged, drag enter sets it to "dragging" and
\* drag leave sets it to "idle".
C30_DragEvents ==
    [][ /\ lastOp' \in {"DragEnter", "DragOver", "DragLeave"} => calls' = <<>>
        /\ lastOp' = "DragOver" => state' = state
        /\ lastOp' = "DragEnter" => state' = "dragging"
        /\ lastOp' = "DragLeave" => state' = "idle" ]_vars

C30_Witness ==
    /\ lastOp = "DragOver"
    /\ state = "error"
    /\ errorMessage = OnlyMessage(accept)
    /\ calls = <<>>

ClientReplied == reply # Null /\ reply[1].op # "GET"

\* C31: every call of apiGet, apiPost or uploadFile passes exactly one
\* request to fetch, whether fetch resolves with a success status, resolves
\* with another status or rejects.
C31_OneRequestPerCall ==
    /\ (call # Null /\ call[1].op # "GET") => Len(fetches) = 1
    /\ ClientReplied => Len(fetches) = 1

C31_Witness ==
    /\ ClientReplied
    /\ reply[1].fetched.rejected
    /\ reply[1].settled.threw
    /\ Len(fetches) = 1

\* C32: an HTTP client operation throws an ApiError iff fetch resolved with
\* a status outside 200..299; a rejected fetch and a response of success
\* status whose body is not JSON throw an error that is no ApiError and
\* carries no status.
C32_ApiErrorIffBadStatus ==
    ClientReplied
        => LET r == reply[1].fetched
               out == reply[1].settled
               isApiError == out.threw /\ out.value.name = "ApiError"
           IN /\ isApiError <=> (~r.rejected /\ (r.status < 200 \/ r.status > 299))
              /\ (r.rejected \/ (r.status >= 200 /\ r.status <= 299 /\ r.json = Null))
                    => (out.threw /\ ~isApiError /\ out.value.status = Null)

C32_Witness ==
    /\ ClientReplied
    /\ reply[1].fetched.status = 200
    /\ reply[1].fetched.json = Null
    /\ reply[1].settled.threw
    /\ reply[1].settled.value.name = "SyntaxError"

\* C33: every request of the HTTP client goes to API_URL followed by the
\* path; apiGet uses GET and apiPost uses POST with the JSON-serialized
\* data, both with the header Content-Type: application/json; uploadFile
\* uses POST with a form-data body holding the file under the field "file"
\* and sets no header.
C33_RequestShape ==
    (call # Null /\ call[1].op # "GET")
        => LET c == call[1]
               q == fetches[1]
           IN /\ q.url = apiUrl \o c.path
              /\ c.op = "apiGet"
                    => /\ q.method = "GET"
                       /\ q.headers = { <<"Content-Type", "application/json">> }
                       /\ q.body = Null
              /\ c.op = "apiPost"
                    => /\ q.method = "POST"
                       /\ q.headers = { <<"Content-Type", "application/json">> }
                       /\ q.body = Some([kind |-> "json", value |-> c.arg[1]])
              /\ c.op = "uploadFile"
                    => /\ q.method = "POST"
                       /\ q.headers = {}
                       /\ q.body = Some([kind |-> "formdata",
                                          value |-> << <<"file", c.arg[1]>> >>])

C33_Witness ==
    /\ call # Null
    /\ call[1].op = "uploadFile"
    /\ fetches[1].headers = {}
    /\ fetches[1].url = <<"http://custom-backend:9000", "/upload">>

C35_UrlReadAtInvocation ==
    (call # Null /\ call[1].op = "GET" /\ lastOp = "HealthRequest")
        => fetches[1].url = (IF env = Null THEN <<"undefined">> ELSE env[1]) \o <<"/">>

\* C37: the connectivity status and the upload lifecycle are independent:
\* a click on the submit button starts an upload exactly when a file is
\* selected and no upload is running, whatever the connectivity status is,
\* and only the settlement of the probe changes the connectivity status.
C37_StatusIndependent ==
    [][ /\ lastOp' # "ProbeSettle" => status' = status
        /\ (lastOp' = "SubmitClick" /\ uploadCalls < uploadBudget)
              => ((selectedFile # Null /\ uploadStatus # "uploading")
                    <=> /\ uploadCalls' = uploadCalls + 1
                        /\ uploadStatus' = "uploading"
                        /\ calls' = <<Call("onClick", <<>>),
                                      Call("uploadFile", <<"/upload", selectedFile[1]>>)>>)
      ]_vars

C37_Witness ==
    /\ lastOp = "SubmitClick"
    /\ status = "error"
    /\ uploadStatus = "uploading"
    /\ Len(calls) = 2
    /\ calls[2].cb = "uploadFile"

\* C38: a click on the zone outside the cancel button calls click() on the
\* file input in every state of the widget and changes nothing else; a click
\* on the cancel button clears the selection, reports null and does not call
\* click() on the file input.
C38_ClickOpensPicker ==
    [][ /\ lastOp' = "ZoneClick"
              => /\ calls' = <<Call("inputClick", <<>>)>>
                 /\ UNCHANGED <<state, fileName, errorMessage, reported>>
        /\ lastOp' = "CancelClick"
              => /\ state' = "idle"
                 /\ fileName' = <<>>
                 /\ reported' = Null
                 /\ \A i \in 1..Len(calls') : calls'[i].cb # "inputClick"
      ]_vars

C38_Witness ==
    /\ lastOp = "ZoneClick"
    /\ state = "selected"
    /\ calls = <<Call("inputClick", <<>>)>>

\* C36: while the page is mounted, every upload call that rejects leaves
\* the upload status "error" and a non-empty upload message, every probe
\* that rejects leaves the connectivity status "error", and, the pending
\* promises being settled eventually, the upload status does not stay
\* "uploading" forever.
C36_FailuresHandled ==
    /\ [][ /\ (lastOp' = "UploadSettle" /\ calls' # <<>> /\ calls'[1].arg.outcome.threw)
                 => /\ uploadStatus' = "error"
                    /\ uploadMessage' # <<>>
           /\ (lastOp' = "ProbeSettle" /\ calls' # <<>> /\ calls'[1].arg.threw)
                 => status' = "error"
         ]_vars
    /\ (mounted /\ uploadStatus = "uploading") ~> (~mounted \/ uploadStatus # "uploading")

C36_Witness ==
    /\ lastOp = "UploadSettle"
    /\ mounted
    /\ calls # <<>>
    /\ calls[1].arg.outcome.threw
    /\ calls[1].arg.outcome.value.name = "TypeError"
    /\ uploadStatus = "error"
    /\ status = "error"
    /\ uploadMessage # <<>>

====
